---- MODULE Spec2Model ----
(***************************************************************************)
(* A model of split_data.py: the blur and rotation augmenters, the         *)
(* partitioner split_data, the relocator move_files and the script main(). *)
(*                                                                         *)
(* The file system is the state.  A file name is a record: an image is     *)
(* [base, tags, ext] ("3-blurry-rotated.png" is base 3, tags               *)
(* <<"blurry","rotated">>, ext "png"), its YOLO label file is [base, tags] *)
(* ("3-blurry-rotated.txt").  Names that hold ".png" somewhere else than   *)
(* at their end are outside the model.                                     *)
(***************************************************************************)
EXTENDS Integers, Sequences, FiniteSets, TLC

VARIABLES
    pc,             \* position of the script
    augment,        \* split_data's augment argument
    ratios,         \* <<train_ratio, val_ratio, test_ratio>>, each <<num, den>>
    pool_images,    \* combined_directory: image name -> content
    pool_labels,    \* combined_directory: label name -> sequence of <<class_id, box>>
    subset_images,  \* subset -> (image name -> content) of <subset>/images
    subset_labels,  \* subset -> (label name -> records) of <subset>/labels
    folders,        \* the subsets whose images/ and labels/ folders exist
    todo,           \* rotate_image_and_labels: files of os.listdir not yet visited
    names_bound,    \* rotate_image_and_labels: new_image_filename has been assigned
    last_turn,      \* rotate_image_and_labels: <<filename, quarter turns>> of the
                    \* file rotated last, <<>> outside the loop
    snapshot,       \* the pool as split_data listed it (line 150)
    train_files, val_files, test_files,   \* what split_data returned
    files,          \* move_files: the names still to relocate, current one first
    target          \* move_files: the subset of target_directory

vars == <<pc, augment, ratios, pool_images, pool_labels, subset_images,
          subset_labels, folders, todo, names_bound, last_turn, snapshot,
          train_files, val_files, test_files, files, target>>

fsvars == <<pool_images, pool_labels, subset_images, subset_labels, folders>>
args == <<augment, ratios>>
pool == <<pool_images, pool_labels>>
dest == <<subset_images, subset_labels>>
rotating == <<todo, names_bound, last_turn>>
returned == <<snapshot, train_files, val_files, test_files>>
moving == <<files, target>>

(***************************************************************************)
(* Bounds of the model.                                                    *)
(***************************************************************************)
MaxPool == 3        \* images in the pool of a run without augmentation
MaxAugPool == 1     \* images in the pool of an augmenting run of main()
MaxRotPool == 2     \* images in the pool when the augmenters are run alone
MaxBoxes == 3       \* records in a label file
MaxN == 10          \* pool size when only the slice lengths are looked at
MaxList == 2        \* names in the list of a direct move_files call
ImgW == 4           \* image width in pixels
ImgH == 2           \* image height in pixels

Subsets == {"train", "val", "test"}
NoFiles == <<>>     \* a directory without files (the function of empty domain)

Put(dir, name, content) ==
    [n \in DOMAIN dir \cup {name} |-> IF n = name THEN content ELSE dir[n]]
Remove(dir, name) == [n \in DOMAIN dir \ {name} |-> dir[n]]
Min(a, b) == IF a < b THEN a ELSE b
Max(a, b) == IF a > b THEN a ELSE b

(***************************************************************************)
(* File names.                                                             *)
(***************************************************************************)
Img(b, t, e) == [base |-> b, tags |-> t, ext |-> e]
Lbl(b, t) == [base |-> b, tags |-> t]
IsImagePath(p) == "ext" \in DOMAIN p

\* filename.lower().endswith('.png')
LowerEndsWithPng(f) == f.ext \in {"png", "PNG"}
\* f.endswith('.png')
EndsWithPng(f) == f.ext = "png"
\* filename.replace('.png', '.txt'): a name without '.png' is returned as it is
ReplacePngTxt(f) == IF f.ext = "png" THEN Lbl(f.base, f.tags) ELSE f
\* filename.replace('.png', '-rotated.png')
ReplacePngRotated(f) ==
    IF f.ext = "png" THEN Img(f.base, Append(f.tags, "rotated"), "png") ELSE f
\* filename.replace('.png', '-rotated.txt')
ReplacePngRotatedTxt(f) ==
    IF f.ext = "png" THEN Lbl(f.base, Append(f.tags, "rotated")) ELSE f
\* base, ext = os.path.splitext(...); f"{base}-blurry{ext}"
BlurryName(f) == Img(f.base, Append(f.tags, "blurry"), f.ext)
\* f"{base}.txt" and f"{base}-blurry.txt"
LabelOfBase(f) == Lbl(f.base, f.tags)
BlurryLabel(f) == Lbl(f.base, Append(f.tags, "blurry"))

\* os.path.exists on a path of the pool
PoolExists(images, labels, p) ==
    IF IsImagePath(p) THEN p \in DOMAIN images ELSE p \in DOMAIN labels

(***************************************************************************)
(* Boxes.  Coordinates are in half pixels, so the image is the rectangle   *)
(* [0, 2*ImgW] x [0, 2*ImgH] and its centre is (ImgW, ImgH).  A YOLO box   *)
(* <<center_x, center_y, width, height>> holds twice the centre (the sum   *)
(* of the two corners) so that every value stays an integer; the constant  *)
(* division by the image size is left out.                                 *)
(***************************************************************************)
YoloOfCorners(c) == <<c[1] + c[3], c[2] + c[4], c[3] - c[1], c[4] - c[2]>>
CornersOfYolo(b) ==
    <<(b[1] - b[3]) \div 2, (b[2] - b[4]) \div 2,
      (b[1] + b[3]) \div 2, (b[2] + b[4]) \div 2>>

\* one quarter turn of a point about the image centre
QuarterTurn(p) == <<ImgW + (p[2] - ImgH), ImgH - (p[1] - ImgW)>>
RECURSIVE TurnPoint(_, _)
TurnPoint(p, k) == IF k = 0 THEN p ELSE TurnPoint(QuarterTurn(p), k - 1)

\* A.Rotate on a box: the axis-aligned rectangle around the four turned corners
BboxRotate(b, k) ==
    LET c == CornersOfYolo(b)
        p1 == TurnPoint(<<c[1], c[2]>>, k)
        p2 == TurnPoint(<<c[3], c[2]>>, k)
        p3 == TurnPoint(<<c[3], c[4]>>, k)
        p4 == TurnPoint(<<c[1], c[4]>>, k)
    IN  <<Min(Min(p1[1], p2[1]), Min(p3[1], p4[1])),
          Min(Min(p1[2], p2[2]), Min(p3[2], p4[2])),
          Max(Max(p1[1], p2[1]), Max(p3[1], p4[1])),
          Max(Max(p1[2], p2[2]), Max(p3[2], p4[2]))>>
\* BboxParams: the box clipped to the frame
ClipToFrame(c) ==
    <<Min(Max(c[1], 0), 2 * ImgW), Min(Max(c[2], 0), 2 * ImgH),
      Min(Max(c[3], 0), 2 * ImgW), Min(Max(c[4], 0), 2 * ImgH)>>
\* BboxParams: a box with no area left in the frame is removed
InFrame(c) == c[3] > c[1] /\ c[4] > c[2]

\* transform(image=..., bboxes=..., class_labels=...)['bboxes']
TransformBboxes(bboxes, k) ==
    LET clipped == [i \in 1..Len(bboxes) |-> ClipToFrame(BboxRotate(bboxes[i], k))]
        kept == SelectSeq(clipped, InFrame)
    IN  [i \in 1..Len(kept) |-> YoloOfCorners(kept[i])]

\* for bbox, class_id in zip(transformed_bboxes, class_labels): f.write(...)
ZipBboxesClasses(transformed_bboxes, class_labels) ==
    [i \in 1..Min(Len(transformed_bboxes), Len(class_labels)) |->
        <<class_labels[i], transformed_bboxes[i]>>]

\* lines 102-122: the label file written for a label file read, turned k quarters
RotatedLabel(lines, k) ==
    LET bboxes == [i \in 1..Len(lines) |-> lines[i][2]]
        class_labels == [i \in 1..Len(lines) |-> lines[i][1]]
    IN  ZipBboxesClasses(TransformBboxes(bboxes, k), class_labels)

(***************************************************************************)
(* blur_images(input_dir, output_dir), called with the pool as both.       *)
(* Every listed image gets a blurred copy and, when its label file exists, *)
(* a copy of the label.  No listed name is the blurred name of another     *)
(* listed name (the pools of Init hold no derived names), so the order of  *)
(* os.listdir does not show in the result.                                 *)
(***************************************************************************)
BlurListing(images) == {f \in DOMAIN images : LowerEndsWithPng(f)}

BlurredImages(images) ==
    LET new == {BlurryName(f) : f \in BlurListing(images)}
    IN  [n \in DOMAIN images \cup new |->
            IF n \in new THEN "blurred" ELSE images[n]]

BlurredLabels(images, labels) ==
    LET src == {f \in BlurListing(images) : LabelOfBase(f) \in DOMAIN labels}
        new == {BlurryLabel(f) : f \in src}
    IN  [n \in DOMAIN labels \cup new |->
            IF n \in new
            THEN labels[LabelOfBase(CHOOSE f \in src : BlurryLabel(f) = n)]
            ELSE labels[n]]

BlurImages ==
    /\ pc = "split_data"
    /\ augment
    /\ pool_images' = BlurredImages(pool_images)
    /\ pool_labels' = BlurredLabels(pool_images, pool_labels)
    /\ pc' = "rotate_image_and_labels"
    /\ UNCHANGED <<args, dest, folders, rotating, returned, moving>>

(***************************************************************************)
(* rotate_image_and_labels(input_dir, output_dir), called with the pool as *)
(* both.  os.listdir is read once; its order is not specified, so each     *)
(* iteration takes any file not yet visited.  A.Rotate draws the angle;    *)
(* the model draws among the quarter turns, which need no trigonometry.    *)
(***************************************************************************)
QuarterTurns == {0, 1, 2, 3}

RotateListdir ==
    /\ pc = "rotate_image_and_labels"
    /\ todo' = {f \in DOMAIN pool_images : LowerEndsWithPng(f)}
    /\ names_bound' = FALSE
    /\ last_turn' = <<>>
    /\ pc' = "rotate_loop"
    /\ UNCHANGED <<args, pool, dest, folders, returned, moving>>

\* lines 89-127 for one filename
RotateIteration ==
    /\ pc = "rotate_loop"
    /\ \E filename \in todo, k \in QuarterTurns :
        LET label_path == ReplacePngTxt(filename) IN
        IF ~PoolExists(pool_images, pool_labels, label_path)
        THEN \* line 124, then line 127 reads new_image_filename
             /\ pc' = IF names_bound THEN "rotate_loop" ELSE "crashed"
             /\ todo' = todo \ {filename}
             /\ UNCHANGED <<pool, names_bound, last_turn>>
        ELSE IF IsImagePath(label_path)
        THEN \* lines 99-105 read the image itself as a label file and fail
             /\ pc' = "crashed"
             /\ todo' = todo \ {filename}
             /\ UNCHANGED <<pool, names_bound, last_turn>>
        ELSE /\ pool_images' =
                    Put(pool_images, ReplacePngRotated(filename), "rotated")
             /\ pool_labels' =
                    Put(pool_labels, ReplacePngRotatedTxt(filename),
                        RotatedLabel(pool_labels[label_path], k))
             /\ names_bound' = TRUE
             /\ last_turn' = <<filename, k>>
             /\ todo' = todo \ {filename}
             /\ pc' = "rotate_loop"
    /\ UNCHANGED <<args, dest, folders, returned, moving>>

RotateReturn ==
    /\ pc = "rotate_loop"
    /\ todo = {}
    /\ last_turn' = <<>>
    /\ pc' = "partition"
    /\ UNCHANGED <<args, pool, dest, folders, todo, names_bound, returned, moving>>

(***************************************************************************)
(* create_folders(base_output_directory): os.makedirs(..., exist_ok=True)  *)
(* leaves what a folder holds.                                             *)
(***************************************************************************)
CreatedFolders(existing) == existing \cup Subsets

CreateFolders ==
    /\ pc = "create_folders"
    /\ folders' = CreatedFolders(folders)
    /\ pc' = "split_data"
    /\ UNCHANGED <<args, pool, dest, rotating, returned, moving>>

(***************************************************************************)
(* split_data, lines 149-166: list, shuffle, slice.                        *)
(***************************************************************************)
\* a variant of FloorTimes: round(total_images * ratio)
RoundTimes(total_images, ratio) ==
    (2 * total_images * ratio[1] + ratio[2]) \div (2 * ratio[2])

\* floor(total_images * ratio) for a ratio <<num, den>>; on the tenths the
\* model draws, float multiplication and floor give this integer
FloorTimes(total_images, ratio) == (total_images * ratio[1]) \div ratio[2]

\* a variant of ListedImages: the listing as it was before the augmenters ran
ListedOriginals(images) == {f \in DOMAIN images : EndsWithPng(f) /\ f.tags = <<>>}

\* [f for f in os.listdir(combined_directory) if f.endswith('.png')]
ListedImages(images) == {f \in DOMAIN images : EndsWithPng(f)}

\* the orders random.shuffle can leave a list of these names in
RECURSIVE Shuffles(_)
Shuffles(S) ==
    IF S = {} THEN {<<>>}
    ELSE UNION {{<<x>> \o rest : rest \in Shuffles(S \ {x})} : x \in S}

\* image_files[a:b] for 0 <= a, 0 <= b
Slice(image_files, a, b) ==
    LET n == Len(image_files)
        lo == Min(a, n)
        hi == Min(b, n)
    IN  IF hi <= lo THEN <<>> ELSE SubSeq(image_files, lo + 1, hi)

TrainCount(total_images, rs) == FloorTimes(total_images, rs[1])
ValCount(total_images, rs) == FloorTimes(total_images, rs[2])
TestCount(total_images, rs) ==
    total_images - TrainCount(total_images, rs) - ValCount(total_images, rs)

TrainSlice(image_files, rs) ==
    Slice(image_files, 0, TrainCount(Len(image_files), rs))
ValSlice(image_files, rs) ==
    Slice(image_files, TrainCount(Len(image_files), rs),
          TrainCount(Len(image_files), rs) + ValCount(Len(image_files), rs))
\* a variant of TestSlice: image_files[train_count:]
TestSliceFromTrain(image_files, rs) ==
    Slice(image_files, TrainCount(Len(image_files), rs), Len(image_files))

TestSlice(image_files, rs) ==
    Slice(image_files,
          TrainCount(Len(image_files), rs) + ValCount(Len(image_files), rs),
          Len(image_files))

\* lines 157-166 on the shuffled list
SplitLists(image_files) ==
    /\ train_files' = TrainSlice(image_files, ratios)
    /\ val_files' = ValSlice(image_files, ratios)
    /\ test_files' = TestSlice(image_files, ratios)
    /\ snapshot' = [images |-> pool_images, labels |-> pool_labels]
    /\ pc' = "move_train"
    /\ UNCHANGED <<args, pool, dest, folders, rotating, moving>>

AtPartition == pc = "partition" \/ (pc = "split_data" /\ ~augment)

Partition ==
    /\ AtPartition
    /\ \E image_files \in Shuffles(ListedImages(pool_images)) :
          SplitLists(image_files)

(***************************************************************************)
(* move_files(files, combined_directory, target_directory).  fs is the     *)
(* file system as a record.                                                *)
(***************************************************************************)
FileSystem ==
    [pi |-> pool_images, pl |-> pool_labels, si |-> subset_images,
     sl |-> subset_labels, fo |-> folders]

\* a variant of MoveImage: the images folder is emptied before the move
MoveImageCleared(fs, file, t) ==
    [fs EXCEPT !.pi = Remove(fs.pi, file),
               !.si = [fs.si EXCEPT ![t] = [n \in {file} |-> fs.pi[file]]]]

\* line 174: shutil.move(image_source, image_target); it raises when the
\* source or the target folder is missing
CanMoveImage(fs, file, t) == file \in DOMAIN fs.pi /\ t \in fs.fo
MoveImage(fs, file, t) ==
    [fs EXCEPT !.pi = Remove(fs.pi, file),
               !.si = [fs.si EXCEPT ![t] = Put(@, file, fs.pi[file])]]

\* a variant of MoveLabel: shutil.copy, the label stays in the pool
MoveLabelCopy(fs, file, t) ==
    LET label_file == ReplacePngTxt(file) IN
    IF ~IsImagePath(label_file) /\ label_file \in DOMAIN fs.pl
    THEN [fs EXCEPT !.sl = [fs.sl EXCEPT ![t] = Put(@, label_file, fs.pl[label_file])]]
    ELSE fs

\* a variant of MoveLabel: the label is never looked for
MoveLabelSkipped(fs, file, t) == fs

\* lines 177-183.  For a name without '.png' the label path is the path of
\* the image line 174 has just moved away, so it does not exist.
MoveLabel(fs, file, t) ==
    LET label_file == ReplacePngTxt(file) IN
    IF ~IsImagePath(label_file) /\ label_file \in DOMAIN fs.pl
    THEN [fs EXCEPT !.pl = Remove(fs.pl, label_file),
                    !.sl = [fs.sl EXCEPT ![t] = Put(@, label_file, fs.pl[label_file])]]
    ELSE fs

\* the whole loop; crashed when line 174 raised
RECURSIVE MoveFiles(_, _, _)
MoveFiles(fs, fl, t) ==
    IF fl = <<>> THEN [fs |-> fs, crashed |-> FALSE]
    ELSE IF ~CanMoveImage(fs, Head(fl), t) THEN [fs |-> fs, crashed |-> TRUE]
    ELSE MoveFiles(MoveLabel(MoveImage(fs, Head(fl), t), Head(fl), t), Tail(fl), t)

\* one of main's three calls, lines 206-208
MainMove(at, list, t, next) ==
    /\ pc = at
    /\ LET r == MoveFiles(FileSystem, list, t) IN
        /\ pool_images' = r.fs.pi
        /\ pool_labels' = r.fs.pl
        /\ subset_images' = r.fs.si
        /\ subset_labels' = r.fs.sl
        /\ pc' = IF r.crashed THEN "crashed" ELSE next
    /\ UNCHANGED <<args, folders, rotating, returned, moving>>

MoveTrain == MainMove("move_train", train_files, "train", "move_val")
MoveVal == MainMove("move_val", val_files, "val", "move_test")
MoveTest == MainMove("move_test", test_files, "test", "done")

(***************************************************************************)
(* The pools the runs start from.  A sample description is                 *)
(* [ext, labeled, label]; sample i is the image of base i.                 *)
(***************************************************************************)
LeftBox == YoloOfCorners(<<0, 0, 2, 2>>)
NearLeftBox == YoloOfCorners(<<2, 0, 4, 2>>)
CentreBox == YoloOfCorners(<<ImgW - 2, ImgH - 2, ImgW + 2, ImgH + 2>>)
RightBox == YoloOfCorners(<<2 * ImgW - 2, 2 * ImgH - 2, 2 * ImgW, 2 * ImgH>>)
BoxChoices == {LeftBox, NearLeftBox, CentreBox, RightBox}

PlainLabel == << <<0, CentreBox>> >>
Labeled(content) == [ext |-> "png", labeled |-> TRUE, label |-> content]
Unlabeled == [ext |-> "png", labeled |-> FALSE, label |-> <<>>]
UpperCase == [ext |-> "PNG", labeled |-> FALSE, label |-> <<>>]
SimpleSamples == {Labeled(PlainLabel), Unlabeled, UpperCase}

\* label files of up to MaxBoxes records, of classes 0, 1, 2, ... or all of class 0
BoxSeqs == UNION {[1..n -> BoxChoices] : n \in 0..MaxBoxes}
LabelChoices ==
    {[i \in 1..Len(bs) |-> <<i - 1, bs[i]>>] : bs \in BoxSeqs}
    \cup {[i \in 1..Len(bs) |-> <<0, bs[i]>>] : bs \in BoxSeqs}

PoolImagesOf(d) ==
    [f \in {Img(i, <<>>, d[i].ext) : i \in 1..Len(d)} |-> "orig"]
PoolLabelsOf(d) ==
    [l \in {Lbl(i, <<>>) : i \in {j \in 1..Len(d) : d[j].labeled}} |->
        d[l.base].label]

EmptySubsets == [s \in Subsets |-> NoFiles]
DefaultRatios == << <<8, 10>>, <<1, 10>>, <<1, 10>> >>

InitLocals ==
    /\ todo = {}
    /\ names_bound = FALSE
    /\ last_turn = <<>>
    /\ snapshot = [images |-> NoFiles, labels |-> NoFiles]
    /\ train_files = <<>>
    /\ val_files = <<>>
    /\ test_files = <<>>
    /\ files = <<>>
    /\ target = "none"

(***************************************************************************)
(* SpecAug: the augmenting stage of split_data (lines 143-147) on pools of *)
(* up to MaxRotPool images, the first with any label file of LabelChoices. *)
(***************************************************************************)
InitAug ==
    /\ pc = "split_data"
    /\ augment = TRUE
    /\ ratios = DefaultRatios
    /\ folders = Subsets
    /\ subset_images = EmptySubsets
    /\ subset_labels = EmptySubsets
    /\ \E n \in 1..MaxRotPool :
       \E first \in {Labeled(c) : c \in LabelChoices} \cup {Unlabeled, UpperCase} :
       \E others \in [2..n -> SimpleSamples] :
          LET d == [i \in 1..n |-> IF i = 1 THEN first ELSE others[i]] IN
          /\ pool_images = PoolImagesOf(d)
          /\ pool_labels = PoolLabelsOf(d)
    /\ InitLocals

NextAug == BlurImages \/ RotateListdir \/ RotateIteration \/ RotateReturn

SpecAug == InitAug /\ [][NextAug]_vars

(***************************************************************************)
(* Spec: the script main() (lines 185-210).  An augmenting run has the     *)
(* arguments main() passes (augment=True, 0.8, 0.1, 0.1) and a pool of up  *)
(* to MaxAugPool images; a run without augmentation draws the ratios from  *)
(* MainRatios and has a pool of up to MaxPool images.  The destination     *)
(* either does not exist yet, or holds an unrelated sample (base 0) in     *)
(* train, or holds in val an older sample with the name of sample 1.       *)
(***************************************************************************)
Tenths(a, b, c) == << <<a, 10>>, <<b, 10>>, <<c, 10>> >>
MainRatios ==
    {Tenths(8, 1, 1), Tenths(4, 4, 2), Tenths(5, 3, 2), Tenths(0, 0, 10),
     Tenths(8, 1, 3), Tenths(3, 3, 3)}

\* train_ratio + val_ratio + test_ratio == 1
ValidRatios(rs) ==
    rs[1][1] * rs[2][2] * rs[3][2] + rs[2][1] * rs[1][2] * rs[3][2]
        + rs[3][1] * rs[1][2] * rs[2][2] = rs[1][2] * rs[2][2] * rs[3][2]

PriorLabel == << <<1, CentreBox>> >>
Only(name, content) == [n \in {name} |-> content]
NoPrior == [fo |-> {}, si |-> EmptySubsets, sl |-> EmptySubsets]
UnrelatedPrior ==
    [fo |-> Subsets,
     si |-> [EmptySubsets EXCEPT !["train"] = Only(Img(0, <<>>, "png"), "prior")],
     sl |-> [EmptySubsets EXCEPT !["train"] = Only(Lbl(0, <<>>), PriorLabel)]]
SameNamePrior ==
    [fo |-> Subsets,
     si |-> [EmptySubsets EXCEPT !["val"] = Only(Img(1, <<>>, "png"), "prior")],
     sl |-> [EmptySubsets EXCEPT !["val"] = Only(Lbl(1, <<>>), PriorLabel)]]
PriorChoices == {NoPrior, UnrelatedPrior, SameNamePrior}

InitDest(choices) ==
    \E prior \in choices :
        /\ folders = prior.fo
        /\ subset_images = prior.si
        /\ subset_labels = prior.sl

InitPool(sizes, samples) ==
    \E n \in sizes : \E d \in [1..n -> samples] :
        /\ pool_images = PoolImagesOf(d)
        /\ pool_labels = PoolLabelsOf(d)

Init ==
    /\ pc = "create_folders"
    /\ augment \in BOOLEAN
    /\ ratios \in (IF augment THEN {DefaultRatios} ELSE MainRatios)
    /\ InitPool(0..(IF augment THEN MaxAugPool ELSE MaxPool), SimpleSamples)
    /\ InitDest(PriorChoices)
    /\ InitLocals

Next ==
    \/ CreateFolders
    \/ BlurImages
    \/ RotateListdir
    \/ RotateIteration
    \/ RotateReturn
    \/ Partition
    \/ MoveTrain
    \/ MoveVal
    \/ MoveTest

Spec == Init /\ [][Next]_vars

(***************************************************************************)
(* SpecMove: move_files called any number of times with any list of        *)
(* up to MaxList image names, one file operation per step.  The folders    *)
(* exist (create_folders has run).                                         *)
(***************************************************************************)
MoveNames == {Img(b, <<>>, "png") : b \in 1..MaxList}
CallLists == UNION {[1..n -> MoveNames] : n \in 1..MaxList}

CallMoveFiles ==
    /\ pc = "idle"
    /\ \E fl \in CallLists, t \in Subsets :
        /\ files' = fl
        /\ target' = t
    /\ pc' = "move_image"
    /\ UNCHANGED <<args, fsvars, rotating, returned>>

\* line 174 for the current name
MoveImageStep ==
    /\ pc = "move_image"
    /\ IF CanMoveImage(FileSystem, Head(files), target)
       THEN LET fs == MoveImage(FileSystem, Head(files), target) IN
            /\ pool_images' = fs.pi
            /\ subset_images' = fs.si
            /\ pc' = "move_label"
       ELSE /\ pc' = "crashed"
            /\ UNCHANGED <<pool_images, subset_images>>
    /\ UNCHANGED <<args, pool_labels, subset_labels, folders, rotating, returned,
                   moving>>

\* lines 177-183 for the current name, then the next name or the return
MoveLabelStep ==
    /\ pc = "move_label"
    /\ LET fs == MoveLabel(FileSystem, Head(files), target) IN
        /\ pool_labels' = fs.pl
        /\ subset_labels' = fs.sl
    /\ files' = Tail(files)
    /\ IF Tail(files) = <<>>
       THEN pc' = "idle" /\ target' = "none"
       ELSE pc' = "move_image" /\ target' = target
    /\ UNCHANGED <<args, pool_images, subset_images, folders, rotating, returned>>

InitMove ==
    /\ pc = "idle"
    /\ augment = FALSE
    /\ ratios = DefaultRatios
    /\ InitPool(0..MaxList, {Labeled(PlainLabel), Unlabeled})
    /\ InitDest({[NoPrior EXCEPT !.fo = Subsets], UnrelatedPrior, SameNamePrior})
    /\ InitLocals

NextMove == CallMoveFiles \/ MoveImageStep \/ MoveLabelStep

SpecMove == InitMove /\ [][NextMove]_vars

(***************************************************************************)
(* SpecCount: lines 149-166 of split_data on pools of up to MaxN images    *)
(* and every triple of tenths.  The lengths of the slices do not depend on *)
(* the order random.shuffle leaves, so the shuffle draws among the         *)
(* rotations of the listing only.                                          *)
(***************************************************************************)
TenthRatios == {Tenths(a, b, c) : a \in 0..10, b \in 0..10, c \in 0..10}

ListingByBase(images) ==
    [i \in 1..Cardinality(ListedImages(images)) |-> Img(i, <<>>, "png")]
Rotation(s, k) == [i \in 1..Len(s) |-> s[((i + k - 1) % Len(s)) + 1]]

PartitionRotated ==
    /\ AtPartition
    /\ \E k \in 0..Max(0, Cardinality(ListedImages(pool_images)) - 1) :
          SplitLists(Rotation(ListingByBase(pool_images), k))

InitCount ==
    /\ pc = "partition"
    /\ augment = FALSE
    /\ ratios \in TenthRatios
    /\ InitPool(0..MaxN, {Unlabeled})
    /\ InitDest({[NoPrior EXCEPT !.fo = Subsets]})
    /\ InitLocals

NextCount == PartitionRotated

SpecCount == InitCount /\ [][NextCount]_vars

(***************************************************************************)
(* The properties.                                                         *)
(***************************************************************************)
Names(list) == {list[i] : i \in DOMAIN list}
Returned == train_files \o val_files \o test_files
Occurrences(list, f) == Cardinality({i \in DOMAIN list : list[i] = f})

\* C1: for valid ratios the three lists split_data returns partition the image
\* names it listed: every listed name is in exactly one list, exactly once, the
\* lengths add up to the number of listed names, and an empty pool gives three
\* empty lists.
PartitionComplete ==
    (pc = "move_train" /\ ValidRatios(ratios)) =>
        LET listed == ListedImages(pool_images) IN
        /\ Len(train_files) + Len(val_files) + Len(test_files) = Cardinality(listed)
        /\ Names(Returned) = listed
        /\ \A f \in listed : Occurrences(Returned, f) = 1
        /\ Names(train_files) \cap Names(val_files) = {}
        /\ Names(train_files) \cap Names(test_files) = {}
        /\ Names(val_files) \cap Names(test_files) = {}
        /\ listed = {} => train_files = <<>> /\ val_files = <<>> /\ test_files = <<>>
PartitionOfThree ==
    /\ pc = "move_train"
    /\ ValidRatios(ratios)
    /\ Len(train_files) = 1 /\ Len(val_files) = 1 /\ Len(test_files) = 1

\* what the claim of C2 expects rotate_image_and_labels to write: every box
\* left in the frame, with the class id of the input record it comes from
ExpectedRotatedLabel(lines, k) ==
    LET turned == [i \in 1..Len(lines) |->
                      <<lines[i][1], ClipToFrame(BboxRotate(lines[i][2], k))>>]
        kept == SelectSeq(turned, LAMBDA r : InFrame(r[2]))
    IN  [i \in 1..Len(kept) |-> <<kept[i][1], YoloOfCorners(kept[i][2])>>]

\* C2: the label file rotate_image_and_labels writes holds exactly the boxes
\* the rotation leaves in the frame, each with the class id of the input box it
\* was derived from (classes [c0, c1, c2] with box 1 dropped give c0 and c2).
ClassAssociation ==
    last_turn # <<>> =>
        pool_labels[ReplacePngRotatedTxt(last_turn[1])]
            = ExpectedRotatedLabel(pool_labels[ReplacePngTxt(last_turn[1])],
                                   last_turn[2])

\* C3: when main() is done, every image split_data listed is out of the pool
\* and in the images area of exactly one subset, and its annotation, if the
\* pool held one, is out of the pool and in the labels area of that subset.
Consumed(f) ==
    LET l == ReplacePngTxt(f)
        holders == {s \in Subsets : /\ f \in DOMAIN subset_images[s]
                                    /\ subset_images[s][f] = snapshot.images[f]}
    IN  /\ f \notin DOMAIN pool_images
        /\ Cardinality(holders) = 1
        /\ l \in DOMAIN snapshot.labels =>
              /\ l \notin DOMAIN pool_labels
              /\ \A s \in holders : /\ l \in DOMAIN subset_labels[s]
                                    /\ subset_labels[s][l] = snapshot.labels[l]
ConsumedOnce ==
    pc = "done" => \A f \in ListedImages(snapshot.images) : Consumed(f)
ConsumedPool ==
    /\ pc = "done"
    /\ Cardinality(ListedImages(snapshot.images)) >= 2
    /\ \E f \in ListedImages(snapshot.images) : ReplacePngTxt(f) \in DOMAIN snapshot.labels
    /\ \E f \in ListedImages(snapshot.images) : ReplacePngTxt(f) \notin DOMAIN snapshot.labels

MovingList ==
    CASE pc = "move_train" -> train_files
      [] pc = "move_val" -> val_files
      [] pc = "move_test" -> test_files
      [] OTHER -> <<>>
Kept(before, after, n) == n \in DOMAIN after /\ after[n] = before[n]

\* C4: no step of main() deletes or changes a file of a destination subset
\* unless the file has the name of an image (or of its label) in the list
\* move_files is relocating; create_folders changes none.
RelocationAdditive ==
    [][\A s \in Subsets :
          /\ \A n \in DOMAIN subset_images[s] :
                \/ Kept(subset_images[s], subset_images'[s], n)
                \/ n \in Names(MovingList)
          /\ \A l \in DOMAIN subset_labels[s] :
                \/ Kept(subset_labels[s], subset_labels'[s], l)
                \/ l \in {ReplacePngTxt(f) : f \in Names(MovingList)}]_vars
RelocatedBesidePrior ==
    /\ DOMAIN subset_images["train"]
          = {Img(0, <<>>, "png"), Img(1, <<>>, "png"), Img(2, <<>>, "png")}
    /\ subset_images["train"][Img(0, <<>>, "png")] = "prior"
    /\ subset_images["train"][Img(1, <<>>, "png")] = "orig"
    /\ subset_images["train"][Img(2, <<>>, "png")] = "orig"
    /\ subset_labels["train"][Lbl(0, <<>>)] = PriorLabel

\* C5: with ratios that do not sum to 1 the run touches no file: no folder is
\* created, no augmented file is written, no file is moved.
InvalidRatioTouchesNothing ==
    [][~ValidRatios(ratios) => UNCHANGED fsvars]_vars

\* floor(n * r) said without the division: the largest k with k <= n * r
FloorOfProduct(n, r) ==
    CHOOSE k \in 0..n : k * r[2] <= n * r[1] /\ (k + 1) * r[2] > n * r[1]

\* C6: for valid ratios the lists have floor(N * train_ratio),
\* floor(N * val_ratio) and N minus both names; 10 images at (0.8, 0.1, 0.1)
\* give (8, 1, 1) and 1 image gives (0, 0, 1).
SliceLengths ==
    (pc = "move_train" /\ ValidRatios(ratios)) =>
        LET n == Cardinality(ListedImages(pool_images))
            lengths == <<Len(train_files), Len(val_files), Len(test_files)>>
            tc == FloorOfProduct(n, ratios[1])
            vc == FloorOfProduct(n, ratios[2])
        IN  /\ lengths = <<tc, vc, n - tc - vc>>
            /\ (n = 10 /\ ratios = DefaultRatios) => lengths = <<8, 1, 1>>
            /\ (n = 1 /\ ratios = DefaultRatios) => lengths = <<0, 0, 1>>
TenSplitEightOneOne ==
    /\ pc = "move_train"
    /\ Cardinality(ListedImages(pool_images)) = 10
    /\ ratios = DefaultRatios
    /\ Len(train_files) = 8

\* the images rotate_image_and_labels visits: the pools of InitAug hold no
\* rotated name before the call
RotateInputs ==
    {f \in DOMAIN pool_images :
        f.tags = <<>> \/ f.tags[Len(f.tags)] # "rotated"}

\* C7: rotate_image_and_labels on a pool of .png images returns; it has then
\* written a rotated image and label for every image that has a label file and
\* none for an image that has none, wherever that image is in the listing.
UnlabeledSkipped ==
    (pc \in {"partition", "crashed"} /\ \A f \in DOMAIN pool_images : EndsWithPng(f)) =>
        /\ pc = "partition"
        /\ \A f \in RotateInputs :
              /\ ReplacePngRotated(f) \in DOMAIN pool_images
                    <=> ReplacePngTxt(f) \in DOMAIN pool_labels
              /\ ReplacePngRotatedTxt(f) \in DOMAIN pool_labels
                    <=> ReplacePngTxt(f) \in DOMAIN pool_labels

\* C8: when the image of the current name is not in the pool, move_files does
\* not crash: it leaves every file where it is and goes on with the next name.
MissingImageSkipped ==
    [][(pc = "move_image" /\ Head(files) \notin DOMAIN pool_images) =>
          /\ pc' # "crashed"
          /\ files' = Tail(files)
          /\ UNCHANGED fsvars]_vars

SplitAcross(s, f) ==
    /\ subset_images[s][f] # "prior"
    /\ ReplacePngTxt(f) \in DOMAIN pool_labels

\* C9 as claimed: between two file operations of move_files no sample has its
\* image in a subset while its annotation is still in the pool.
NeverSplit ==
    \A s \in Subsets : \A f \in DOMAIN subset_images[s] : ~SplitAcross(s, f)

\* C9 as amended: between two file operations of move_files the only sample
\* that can have its image in a subset while its annotation is still in the
\* pool is the one move_files is relocating (image moved, label not yet); a
\* relocated annotation is in the subset that holds its image.
OnlyCurrentSplit ==
    /\ \A s \in Subsets : \A f \in DOMAIN subset_images[s] :
          SplitAcross(s, f) =>
              pc = "move_label" /\ f = Head(files) /\ s = target
    /\ \A s \in Subsets : \A l \in DOMAIN subset_labels[s] :
          subset_labels[s][l] # PriorLabel =>
              /\ Img(l.base, l.tags, "png") \in DOMAIN subset_images[s]
              /\ subset_images[s][Img(l.base, l.tags, "png")] # "prior"
PairRelocatedMidList ==
    /\ pc = "move_image"
    /\ \E s \in Subsets : \E f \in DOMAIN subset_images[s] :
          /\ subset_images[s][f] = "orig"
          /\ ReplacePngTxt(f) \in DOMAIN subset_labels[s]
          /\ subset_labels[s][ReplacePngTxt(f)] = PlainLabel
          /\ s = target

\* C10: in an augmenting run split_data lists the pool after both augmenters
\* have returned: every image then in the pool, the originals and the -blurry
\* and -rotated ones, is in exactly one of the returned lists, once.
DerivedListed ==
    (pc = "move_train" /\ augment) =>
        \A f \in DOMAIN pool_images : Occurrences(Returned, f) = 1
DerivedInPool ==
    /\ pc = "move_train"
    /\ augment
    /\ Img(1, <<"blurry">>, "png") \in DOMAIN pool_images
    /\ Img(1, <<"blurry", "rotated">>, "png") \in DOMAIN pool_images
    /\ Img(1, <<"rotated">>, "png") \in DOMAIN pool_images

====
